---------------------------- MODULE Spec2Model ----------------------------
(***************************************************************************)
(* uploadToGitHub (src/helpers/github-upload.js): upload a PNG buffer to a *)
(* repository through the Contents API.  One call is an async function     *)
(* with two await points, the probe GET and the write PUT.                 *)
(*                                                                         *)
(*   Spec      one call against a remote that may answer anything, while   *)
(*             process.env may be changed by the rest of the process;      *)
(*   RaceSpec  NCalls concurrent calls against a remote that stores one    *)
(*             revision token per address.                                 *)
(***************************************************************************)
EXTENDS Integers, Sequences, FiniteSets, TLC

(***************************************************************************)
(* Bounds                                                                  *)
(***************************************************************************)
NCalls == 2
MaxPayloadLen == 1
MaxEnvChanges == 1

Calls == 1..NCalls

(***************************************************************************)
(* JavaScript values.  Every value is a record of the same shape, so that  *)
(* values of different JavaScript types can be compared.                   *)
(***************************************************************************)
Undefined == [type |-> "undefined", str |-> "", num |-> 0]
Null == [type |-> "null", str |-> "", num |-> 0]
Str(s) == [type |-> "string", str |-> s, num |-> 0]
Num(n) == [type |-> "number", str |-> "", num |-> n]
Bool(b) == [type |-> "boolean", str |-> "", num |-> IF b THEN 1 ELSE 0]

\* ToBoolean of the language: undefined, null, false, 0 and "" are falsy.
ToBoolean(v) ==
  CASE v.type = "undefined" -> FALSE
    [] v.type = "null" -> FALSE
    [] v.type = "boolean" -> v.num = 1
    [] v.type = "number" -> v.num # 0
    [] v.type = "string" -> v.str # ""

\* a || b
OrElse(a, b) == IF ToBoolean(a) THEN a ELSE b

(***************************************************************************)
(* Buffer.toString('base64')                                               *)
(***************************************************************************)
Bytes == {77, 250}
Base64Alphabet ==
  << "A","B","C","D","E","F","G","H","I","J","K","L","M","N","O","P",
     "Q","R","S","T","U","V","W","X","Y","Z","a","b","c","d","e","f",
     "g","h","i","j","k","l","m","n","o","p","q","r","s","t","u","v",
     "w","x","y","z","0","1","2","3","4","5","6","7","8","9","+","/" >>
B64(i) == Base64Alphabet[i + 1]

RECURSIVE Base64(_)
Base64(buf) ==
  IF Len(buf) = 0 THEN << >>
  ELSE IF Len(buf) = 1 THEN
    << B64(buf[1] \div 4), B64((buf[1] % 4) * 16), "=", "=" >>
  ELSE IF Len(buf) = 2 THEN
    << B64(buf[1] \div 4),
       B64((buf[1] % 4) * 16 + buf[2] \div 16),
       B64((buf[2] % 16) * 4), "=" >>
  ELSE
    << B64(buf[1] \div 4),
       B64((buf[1] % 4) * 16 + buf[2] \div 16),
       B64((buf[2] % 16) * 4 + buf[3] \div 64),
       B64(buf[3] % 64) >> \o Base64(SubSeq(buf, 4, Len(buf)))

(***************************************************************************)
(* HTTP messages.  A response body is described by what reading it gives:  *)
(* res.text() gives the body itself, res.json() its parse.                 *)
(*   kind   "unreadable" the body stream fails, "text" not JSON,           *)
(*          "null" / "prim" / "obj" the JSON value it parses to;           *)
(*   sha    the value of the key sha of an object (Undefined when absent); *)
(*   ckind  the key content: "absent", "null", "prim" or "obj";            *)
(*   url    the value of content.download_url (Undefined when absent).     *)
(***************************************************************************)
MkBody(kind, raw, sha, ckind, url) ==
  [kind |-> kind, raw |-> raw, sha |-> sha, ckind |-> ckind, url |-> url]
TextBody(raw) == MkBody("text", raw, Undefined, "absent", Undefined)
NoBody == TextBody("")
Unreadable == MkBody("unreadable", "", Undefined, "absent", Undefined)
JsonNull == MkBody("null", "null", Undefined, "absent", Undefined)
JsonPrim == MkBody("prim", "5", Undefined, "absent", Undefined)
JsonObj(sha, ckind, url) == MkBody("obj", "", sha, ckind, url)

\* A settled fetch(): either the promise rejected, or a Response.
FetchThrows == [kind |-> "throw", status |-> 0, body |-> NoBody]
Http(status, body) == [kind |-> "http", status |-> status, body |-> body]
NoResponse == [kind |-> "none", status |-> 0, body |-> NoBody]

\* Response.ok
ResponseOk(r) == r.kind = "http" /\ r.status >= 200 /\ r.status <= 299

\* Response.json() rejects when the body cannot be read or is not JSON.
JsonThrows(b) == b.kind \in {"unreadable", "text"}

(***************************************************************************)
(* The function's own computations                                         *)
(***************************************************************************)
GITHUB_API == "https://api.github.com"

\* ResolveBranch ignoring the variable.
BranchFallbackAlways(envBranch) == Str("main")
\* process.env.GITHUB_BRANCH || 'main'
ResolveBranch(envBranch) == OrElse(envBranch, Str("main"))

\* ConfigMissing with && for ||.
ConfigMissingBoth(token, repo) == ~ToBoolean(token) /\ ~ToBoolean(repo)
\* !token || !repo
ConfigMissing(token, repo) == ~ToBoolean(token) \/ ~ToBoolean(repo)

\* ApiUrl leaving out the file path.
ApiUrlNoPath(repo, filePath) ==
  << GITHUB_API, "/repos/", repo.str, "/contents/", "" >>
\* `${GITHUB_API}/repos/${repo}/contents/${filePath}`, kept as its pieces
ApiUrl(repo, filePath) == << GITHUB_API, "/repos/", repo.str, "/contents/", filePath >>

\* `Bearer ${token}`
Authorization(token) == << "Bearer ", token.str >>

\* Lines 29-43: the value of existingSha once the probe has settled.  Every
\* throw inside the try block (fetch, json(), reading .sha of null) is caught.
ExistingSha(check) ==
  IF check.kind = "throw" THEN Undefined
  ELSE IF ~ResponseOk(check) THEN Undefined
  ELSE IF JsonThrows(check.body) THEN Undefined
  ELSE IF check.body.kind = "null" THEN Undefined
  ELSE IF check.body.kind = "prim" THEN Undefined
  ELSE check.body.sha

\* Lines 45-50: the object body; hasSha says whether the key sha was added.
NoObject ==
  [message |-> << "", "" >>, content |-> << >>, branch |-> Undefined,
   hasSha |-> FALSE, sha |-> Undefined]
\* BuildBody without line 50.
BuildBodyNoSha(filePath, imageBuffer, branch, existingSha) ==
  [message |-> << "upload ", filePath >>, content |-> Base64(imageBuffer),
   branch |-> branch, hasSha |-> FALSE, sha |-> Undefined]
BuildBody(filePath, imageBuffer, branch, existingSha) ==
  [message |-> << "upload ", filePath >>, content |-> Base64(imageBuffer),
   branch |-> branch, hasSha |-> ToBoolean(existingSha),
   sha |-> IF ToBoolean(existingSha) THEN existingSha ELSE Undefined]

\* JSON.stringify(body): a key is written only if the object has it and its
\* value is not undefined.  In the text a missing key reads as Undefined.
NoText == [message |-> << "", "" >>, content |-> << >>, branch |-> Undefined,
           sha |-> Undefined]
JSONstringify(obj) ==
  [message |-> obj.message, content |-> obj.content, branch |-> obj.branch,
   sha |-> IF obj.hasSha THEN obj.sha ELSE Undefined]

\* The two requests of lines 31-36 and 52-60.
ProbeRequest(apiUrl, token) ==
  [method |-> "GET", url |-> apiUrl, authorization |-> Authorization(token),
   accept |-> "application/vnd.github+json", contentType |-> "",
   body |-> NoText]
WriteRequest(apiUrl, token, obj) ==
  [method |-> "PUT", url |-> apiUrl, authorization |-> Authorization(token),
   accept |-> "application/vnd.github+json",
   contentType |-> "application/json", body |-> JSONstringify(obj)]

\* The promise returned by uploadToGitHub.
NoError == [name |-> "", message |-> "", status |-> 0, text |-> NoBody]
Pending == [state |-> "pending", value |-> Undefined, error |-> NoError]
Fulfilled(v) == [state |-> "fulfilled", value |-> v, error |-> NoError]
Rejected(name, message, status, text) ==
  [state |-> "rejected", value |-> Undefined,
   error |-> [name |-> name, message |-> message, status |-> status,
              text |-> text]]

\* Line 23
ConfigurationError ==
  Rejected("Error", "GITHUB_TOKEN or GITHUB_REPO is not configured", 0, NoBody)
\* Line 64: `GitHub upload failed (${res.status}): ${text}`
RemoteWriteError(status, text) ==
  Rejected("Error", "GitHub upload failed", status, text)
\* What the runtime throws: fetch() or a body read failing, JSON.parse
\* failing, reading a property of undefined or null.
FetchError == Rejected("TypeError", "fetch failed", 0, NoBody)
BodyReadError == Rejected("TypeError", "terminated", 0, NoBody)
JsonSyntaxError == Rejected("SyntaxError", "Unexpected token", 0, NoBody)
PropertyTypeError ==
  Rejected("TypeError", "Cannot read properties of undefined or null", 0, NoBody)

\* DownloadUrl reading a key the response does not have (content.url).
DownloadUrlWrongKey(b) ==
  IF b.kind = "unreadable" THEN BodyReadError
  ELSE IF b.kind = "text" THEN JsonSyntaxError
  ELSE IF b.kind \in {"null", "prim"} THEN PropertyTypeError
  ELSE IF b.ckind \in {"absent", "null"} THEN PropertyTypeError
  ELSE Fulfilled(Undefined)

\* Lines 67-70: res.json(), then data.content.download_url
DownloadUrl(b) ==
  IF b.kind = "unreadable" THEN BodyReadError
  ELSE IF b.kind = "text" THEN JsonSyntaxError
  ELSE IF b.kind = "null" THEN PropertyTypeError
  ELSE IF b.kind = "prim" THEN PropertyTypeError
  ELSE IF b.ckind \in {"absent", "null"} THEN PropertyTypeError
  ELSE IF b.ckind = "prim" THEN Fulfilled(Undefined)
  ELSE Fulfilled(b.url)

\* WriteOutcome without the test of res.ok.
WriteOutcomeUnchecked(res) ==
  IF res.kind = "throw" THEN FetchError ELSE DownloadUrl(res.body)
\* WriteOutcome dropping the status from the error.
WriteOutcomeNoStatus(res) ==
  IF res.kind = "throw" THEN FetchError
  ELSE IF ~ResponseOk(res) THEN
    IF res.body.kind = "unreadable" THEN BodyReadError
    ELSE RemoteWriteError(0, res.body)
  ELSE DownloadUrl(res.body)

\* Lines 52-70: how the call settles once the write fetch has settled.
WriteOutcome(res) ==
  IF res.kind = "throw" THEN FetchError
  ELSE IF ~ResponseOk(res) THEN
    IF res.body.kind = "unreadable" THEN BodyReadError
    ELSE RemoteWriteError(res.status, res.body)
  ELSE DownloadUrl(res.body)

(***************************************************************************)
(* Inputs                                                                  *)
(***************************************************************************)
\* Values of an environment variable: unset, set to "", set to a text.
TokenValues == {Undefined, Str(""), Str("ghp_token")}
RepoValues == {Undefined, Str(""), Str("myorg/quote-images")}
BranchValues == {Undefined, Str(""), Str("dev")}
EnvValues(name) ==
  CASE name = "GITHUB_TOKEN" -> TokenValues
    [] name = "GITHUB_REPO" -> RepoValues
    [] name = "GITHUB_BRANCH" -> BranchValues
EnvNames == {"GITHUB_TOKEN", "GITHUB_REPO", "GITHUB_BRANCH"}

FilePaths == {"john/hello.png", "jane/bye.png"}
RECURSIVE BuffersOfLen(_)
BuffersOfLen(n) ==
  IF n = 0 THEN {<< >>}
  ELSE {Append(b, x) : b \in BuffersOfLen(n - 1), x \in Bytes}
ImageBuffers == UNION {BuffersOfLen(n) : n \in 0..MaxPayloadLen}

\* Values a remote may put under the key sha or download_url.
ShaValues ==
  {Undefined, Null, Bool(FALSE), Num(0), Num(7), Str(""), Str("T1"), Str("T2")}
UrlValues ==
  {Undefined, Null, Num(7), Str(""), Str("https://example/x.png")}

\* What an arbitrary remote may answer to the probe and to the write.
ProbeBodies ==
  {Unreadable, TextBody("<html>"), JsonNull, JsonPrim}
    \cup {JsonObj(v, "absent", Undefined) : v \in ShaValues}
ProbeResponses ==
  {FetchThrows, Http(404, TextBody("Not Found")), Http(500, Unreadable)}
    \cup {Http(200, b) : b \in ProbeBodies}
WriteBodies ==
  {Unreadable, TextBody(""), TextBody("Conflict"), JsonNull, JsonPrim}
    \cup {JsonObj(Undefined, k, Undefined) : k \in {"absent", "null", "prim"}}
    \cup {JsonObj(Undefined, "obj", u) : u \in UrlValues}
WriteStatuses == {200, 201, 409, 500}
WriteResponses ==
  {FetchThrows} \cup {Http(s, b) : s \in WriteStatuses, b \in WriteBodies}

(***************************************************************************)
(* State                                                                   *)
(*   env         process.env                                               *)
(*   envChanges  how often process.env was changed                         *)
(*   call[c]     the arguments, locals, position and promise of call c     *)
(*   sent[c]     the requests call c has passed to fetch, in order         *)
(*   remote      the revision token stored at each address                 *)
(***************************************************************************)
VARIABLES env, envChanges, call, sent, remote
vars == << env, envChanges, call, sent, remote >>

NotStarted ==
  [pc |-> "idle", imageBuffer |-> << >>, filePath |-> "",
   token |-> Undefined, repo |-> Undefined, branch |-> Undefined,
   apiUrl |-> ApiUrl(Undefined, ""), check |-> NoResponse,
   existingSha |-> Undefined, body |-> NoObject, res |-> NoResponse,
   promise |-> Pending]

\* The addresses calls can form, and the store of a remote that has a file
\* at the first path only.
Addresses == {ApiUrl(r, f) : r \in RepoValues, f \in FilePaths \cup {""}}
InitialRemote ==
  [u \in Addresses |->
     IF u[5] = "john/hello.png" THEN Str("T1") ELSE Undefined]

Init ==
  /\ env \in [EnvNames -> TokenValues \cup RepoValues \cup BranchValues]
  /\ \A n \in EnvNames : env[n] \in EnvValues(n)
  /\ envChanges = 0
  /\ call = [c \in Calls |-> NotStarted]
  /\ sent = [c \in Calls |-> << >>]
  /\ remote = InitialRemote

(***************************************************************************)
(* Steps of uploadToGitHub                                                 *)
(***************************************************************************)
\* Lines 18-36: read the configuration, throw if it is missing, otherwise
\* form the address and pass the probe to fetch; the call waits at line 31.
Start(c, imageBuffer, filePath) ==
  /\ call[c].pc = "idle"
  /\ LET token == env["GITHUB_TOKEN"]
         repo == env["GITHUB_REPO"]
         branch == ResolveBranch(env["GITHUB_BRANCH"])
         args == [call[c] EXCEPT !.imageBuffer = imageBuffer,
                                 !.filePath = filePath,
                                 !.token = token, !.repo = repo,
                                 !.branch = branch]
     IN IF ConfigMissing(token, repo)
        THEN /\ call' = [call EXCEPT ![c] =
                           [args EXCEPT !.pc = "done",
                                        !.promise = ConfigurationError]]
             /\ sent' = sent
        ELSE /\ call' = [call EXCEPT ![c] =
                           [args EXCEPT !.pc = "probe",
                                        !.apiUrl = ApiUrl(repo, filePath)]]
             /\ sent' = [sent EXCEPT ![c] =
                           Append(@, ProbeRequest(ApiUrl(repo, filePath), token))]
  /\ UNCHANGED << env, envChanges, remote >>

\* ProbeSettled without the try/catch of lines 30-43: a failing probe fetch
\* rejects the call.
ProbeSettledUncaught(c, check) ==
  /\ call[c].pc = "probe"
  /\ IF check.kind = "throw"
     THEN /\ call' = [call EXCEPT ![c] =
                        [@ EXCEPT !.pc = "done", !.check = check,
                                  !.promise = FetchError]]
          /\ sent' = sent
     ELSE LET existingSha == ExistingSha(check)
              body == BuildBody(call[c].filePath, call[c].imageBuffer,
                                call[c].branch, existingSha)
          IN /\ call' = [call EXCEPT ![c] =
                           [@ EXCEPT !.pc = "write", !.check = check,
                                     !.existingSha = existingSha,
                                     !.body = body]]
             /\ sent' = [sent EXCEPT ![c] =
                           Append(@, WriteRequest(call[c].apiUrl,
                                                  call[c].token, body))]
  /\ UNCHANGED << env, envChanges >>

\* Lines 31-60: the probe fetch settles as check; existingSha is taken from
\* it, the body is built and the write is passed to fetch; the call waits
\* at line 52.
ProbeSettled(c, check) ==
  /\ call[c].pc = "probe"
  /\ LET existingSha == ExistingSha(check)
         body == BuildBody(call[c].filePath, call[c].imageBuffer,
                           call[c].branch, existingSha)
     IN /\ call' = [call EXCEPT ![c] =
                      [@ EXCEPT !.pc = "write", !.check = check,
                                !.existingSha = existingSha, !.body = body]]
        /\ sent' = [sent EXCEPT ![c] =
                      Append(@, WriteRequest(call[c].apiUrl, call[c].token, body))]
  /\ UNCHANGED << env, envChanges >>

\* WriteSettled with a retry: a failed write is sent again.
WriteSettledRetry(c, res) ==
  /\ call[c].pc = "write"
  /\ IF res.kind = "http" /\ ~ResponseOk(res) /\ Len(sent[c]) < 4
     THEN /\ call' = [call EXCEPT ![c] = [@ EXCEPT !.res = res]]
          /\ sent' = [sent EXCEPT ![c] = Append(@, sent[c][Len(sent[c])])]
     ELSE /\ call' = [call EXCEPT ![c] =
                        [@ EXCEPT !.pc = "done", !.res = res,
                                  !.promise = WriteOutcome(res)]]
          /\ sent' = sent
  /\ UNCHANGED << env, envChanges >>

\* Lines 52-70: the write fetch settles as res and the call settles.
WriteSettled(c, res) ==
  /\ call[c].pc = "write"
  /\ call' = [call EXCEPT ![c] =
                [@ EXCEPT !.pc = "done", !.res = res,
                          !.promise = WriteOutcome(res)]]
  /\ UNCHANGED << env, envChanges, sent >>

\* The rest of the process assigns or deletes an environment variable.
SetEnv(name, value) ==
  /\ envChanges < MaxEnvChanges
  /\ value \in EnvValues(name)
  /\ value # env[name]
  /\ env' = [env EXCEPT ![name] = value]
  /\ envChanges' = envChanges + 1
  /\ UNCHANGED << call, sent, remote >>

(***************************************************************************)
(* One call, any remote                                                    *)
(***************************************************************************)
\* The call that is followed.
Caller == CHOOSE c \in Calls : \A d \in Calls : c <= d

Upload == \E b \in ImageBuffers, f \in FilePaths : Start(Caller, b, f)
Probe == \E r \in ProbeResponses : ProbeSettled(Caller, r) /\ remote' = remote
Write == \E r \in WriteResponses : WriteSettled(Caller, r) /\ remote' = remote
Configure == \E n \in EnvNames : \E v \in EnvValues(n) : SetEnv(n, v)

Next == Upload \/ Probe \/ Write \/ Configure

Spec == Init /\ [][Next]_vars

(***************************************************************************)
(* The remote content API as the specification describes it: it keeps the  *)
(* current revision token of the file at each address, answers a read with *)
(* that token or with not-found, and accepts a write of an existing file   *)
(* only if the write carries the current token.                            *)
(***************************************************************************)
\* The revision token of a file is the hash of its content.
RevisionOf(content) == Str(ToString(content))

RemoteRead(store, req) ==
  IF store[req.url] = Undefined
  THEN Http(404, TextBody("Not Found"))
  ELSE Http(200, JsonObj(store[req.url], "absent", Undefined))

PublicUrl(req) == Str(ToString(<< req.url[3], req.body.branch.str, req.url[5] >>))

RemoteAccepts(store, req) ==
  IF store[req.url] = Undefined
  THEN req.body.sha = Undefined
  ELSE req.body.sha = store[req.url]

RemoteWrite(store, req) ==
  IF RemoteAccepts(store, req)
  THEN Http(IF store[req.url] = Undefined THEN 201 ELSE 200,
            JsonObj(RevisionOf(req.body.content), "obj", PublicUrl(req)))
  ELSE Http(409, TextBody("Conflict"))

RemoteStore(store, req) ==
  IF RemoteAccepts(store, req)
  THEN [store EXCEPT ![req.url] = RevisionOf(req.body.content)]
  ELSE store

(***************************************************************************)
(* Concurrent calls, the remote above                                      *)
(***************************************************************************)
RaceInit ==
  /\ Init
  /\ ~ConfigMissing(env["GITHUB_TOKEN"], env["GITHUB_REPO"])

LastSent(c) == sent[c][Len(sent[c])]

\* Two different images are enough to tell the writes of two calls apart.
RaceBuffers == {<< >>, << 77 >>}

RaceUpload ==
  \E c \in Calls, b \in RaceBuffers, f \in FilePaths : Start(c, b, f)
\* The remote answers the probe of call c.
RaceProbe ==
  \E c \in Calls :
    /\ ProbeSettled(c, RemoteRead(remote, LastSent(c)))
    /\ remote' = remote
\* The probe of call c fails on the network.
RaceProbeFails ==
  \E c \in Calls : ProbeSettled(c, FetchThrows) /\ remote' = remote
\* The remote handles the write of call c and answers it.
RaceWrite ==
  \E c \in Calls :
    /\ WriteSettled(c, RemoteWrite(remote, LastSent(c)))
    /\ remote' = RemoteStore(remote, LastSent(c))

RaceNext == RaceUpload \/ RaceProbe \/ RaceProbeFails \/ RaceWrite

RaceSpec == RaceInit /\ [][RaceNext]_vars

(***************************************************************************)
(* Properties                                                              *)
(***************************************************************************)
Started(c) == call[c].pc # "idle"
Done(c) == call[c].pc = "done"
Missing(v) == v = Undefined \/ v = Str("")
ValidConfig(c) == ~Missing(call[c].token) /\ ~Missing(call[c].repo)
Methods(c) == [i \in 1..Len(sent[c]) |-> sent[c][i].method]
WriteSent(c) == Len(sent[c]) >= 2
GoodUrl == Str("https://example/x.png")

\* C1: a call made while GITHUB_TOKEN or GITHUB_REPO is missing fails with
\* the configuration error and passes no request to fetch, neither the probe
\* GET nor the write PUT.
C1_ConfigErrorNoNetwork ==
  \A c \in Calls :
    (Started(c) /\ (Missing(call[c].token) \/ Missing(call[c].repo)))
      => /\ Done(c)
         /\ call[c].promise = ConfigurationError
         /\ sent[c] = << >>
C1_Witness ==
  /\ Done(Caller)
  /\ call[Caller].token = Str("ghp_token")
  /\ call[Caller].repo = Undefined
  /\ call[Caller].promise = ConfigurationError
  /\ sent[Caller] = << >>

\* The probe of call c succeeded and its body is an object whose sha is t.
ProbeReturned(c, t) ==
  /\ WriteSent(c)
  /\ ResponseOk(call[c].check)
  /\ call[c].check.body.kind = "obj"
  /\ call[c].check.body.sha = t

\* C2 as stated: whenever the probe succeeds and returns a token T (any
\* text), the write request body has exactly T as its sha.
C2_AnyTokenSent ==
  \A c \in Calls : \A t \in ShaValues :
    (ProbeReturned(c, t) /\ t.type = "string") => sent[c][2].body.sha = t

\* C2 amended: whenever the probe succeeds and returns a token T that is
\* not empty, the write request body has exactly T as its sha; an empty
\* token is left out of the body.
C2_NonEmptyTokenSent ==
  \A c \in Calls : \A t \in ShaValues :
    (ProbeReturned(c, t) /\ t.type = "string")
      => sent[c][2].body.sha = (IF t.str # "" THEN t ELSE Undefined)
C2_Witness ==
  /\ ProbeReturned(Caller, Str("T1"))
  /\ sent[Caller][2].method = "PUT"
  /\ sent[Caller][2].body.sha = Str("T1")

\* The probe settled without giving a token: the fetch failed, the status
\* was not a success, or the body was not an object with a sha.
ProbeFailed(check) ==
  \/ check.kind = "throw"
  \/ check.kind = "http" /\ (check.status < 200 \/ check.status > 299)
  \/ check.kind = "http" /\ check.body.kind \in {"unreadable", "text", "null", "prim"}

\* C3: if the probe does not succeed (not-found, network error, malformed
\* body), the write request is still sent, it has no sha, and the call does
\* not fail because of the probe: it is pending until the write settles
\* and a good write response fulfils it.
C3_ProbeFailureAbsorbed ==
  \A c \in Calls :
    (call[c].check # NoResponse /\ ProbeFailed(call[c].check))
      => /\ Methods(c) = << "GET", "PUT" >>
         /\ sent[c][2].body.sha = Undefined
         /\ call[c].pc = "write" => call[c].promise = Pending
         /\ call[c].pc \in {"write", "done"}
         /\ (Done(c) /\ call[c].res = Http(201, JsonObj(Undefined, "obj", GoodUrl)))
              => call[c].promise = Fulfilled(GoodUrl)
C3_Witness ==
  /\ call[Caller].check = Http(200, TextBody("<html>"))
  /\ Done(Caller)
  /\ sent[Caller][2].body.sha = Undefined
  /\ call[Caller].promise = Fulfilled(GoodUrl)

\* C4: whenever the write response has a non-success status S and body
\* text B, the call is rejected with the remote-write error carrying S and
\* B, and no URL is returned.
C4_RemoteWriteError ==
  \A c \in Calls :
    (Done(c) /\ call[c].res.kind = "http"
       /\ (call[c].res.status < 200 \/ call[c].res.status > 299)
       /\ call[c].res.body.kind # "unreadable")
      => /\ call[c].promise.state = "rejected"
         /\ call[c].promise.error.message = "GitHub upload failed"
         /\ call[c].promise.error.status = call[c].res.status
         /\ call[c].promise.error.text = call[c].res.body
         /\ call[c].promise.value = Undefined
C4_Witness ==
  /\ Done(Caller)
  /\ call[Caller].res = Http(409, TextBody("Conflict"))
  /\ call[Caller].promise = RemoteWriteError(409, TextBody("Conflict"))

\* C5: a successful write response whose body carries
\* content.download_url = U makes the call resolve to exactly U, whatever
\* the probe gave.
C5_ResolvesToDownloadUrl ==
  \A c \in Calls :
    (Done(c) /\ call[c].res.kind = "http"
       /\ call[c].res.status >= 200 /\ call[c].res.status <= 299
       /\ call[c].res.body.kind = "obj" /\ call[c].res.body.ckind = "obj"
       /\ call[c].res.body.url # Undefined)
      => /\ call[c].promise.state = "fulfilled"
         /\ call[c].promise.value = call[c].res.body.url
C5_Witness ==
  /\ Done(Caller)
  /\ call[Caller].check = FetchThrows
  /\ call[Caller].res = Http(200, JsonObj(Undefined, "obj", GoodUrl))
  /\ call[Caller].promise = Fulfilled(GoodUrl)

\* What call c would send and get if it ran alone against the initial
\* remote, with the same network failure of its probe, if any.
SoloCheck(c) ==
  IF call[c].check.kind = "throw" THEN FetchThrows
  ELSE RemoteRead(InitialRemote, sent[c][1])
SoloWrite(c) ==
  WriteRequest(call[c].apiUrl, call[c].token,
               BuildBody(call[c].filePath, call[c].imageBuffer,
                         call[c].branch, ExistingSha(SoloCheck(c))))
SoloPromise(c) == WriteOutcome(RemoteWrite(InitialRemote, SoloWrite(c)))
\* No other call that has started has the destination path of call c.
OwnPath(c) ==
  \A d \in Calls \ {c} : Started(d) => call[d].filePath # call[c].filePath

\* C6: a call whose destination path no concurrent call shares sends the
\* write request (same sha, present or not) and settles the way it would
\* running alone against the initial remote, under every interleaving.
C6_DifferentPathsIndependent ==
  \A c \in Calls :
    (OwnPath(c) /\ WriteSent(c))
      => /\ sent[c][2] = SoloWrite(c)
         /\ Done(c) => call[c].promise = SoloPromise(c)
C6_Witness ==
  \E a, b \in Calls :
    /\ call[a].filePath = "john/hello.png" /\ call[b].filePath = "jane/bye.png"
    /\ call[a].pc = "write" /\ sent[a][2].body.sha = Str("T1")
    /\ Done(b) /\ call[b].promise.state = "fulfilled"
    /\ call[b].res.status = 201

\* What the environment has the branch variable say: its text when set to
\* one, "main" when unset.
BranchAsStated(v) == IF v = Undefined THEN Str("main") ELSE v
\* The same, with a variable set to the empty text counted as unset.
BranchAsCoded(v) == IF Missing(v) THEN Str("main") ELSE v
\* Call c begins, respectively sends its write, in this step.
Begins(c) == call[c].pc = "idle" /\ call'[c].pc = "probe"
SendsWrite(c) == call[c].pc = "probe" /\ call'[c].pc = "write"

\* C7 as stated: the branch of the write request is the configured value
\* when the variable is set and "main" when it is unset, as read when the
\* call began.
C7_BranchAsStated ==
  [][\A c \in Calls :
       /\ Begins(c) => call'[c].branch = BranchAsStated(env["GITHUB_BRANCH"])
       /\ Started(c) => call'[c].branch = call[c].branch
       /\ SendsWrite(c) => sent'[c][2].body.branch = call[c].branch]_vars

\* C7 amended: the branch of the write request is the configured value
\* when the variable is set to a non-empty text and "main" when it is unset
\* or empty, as read when the call began, whatever the variable says later.
C7_BranchAsCoded ==
  [][\A c \in Calls :
       /\ Begins(c) => call'[c].branch = BranchAsCoded(env["GITHUB_BRANCH"])
       /\ Started(c) => call'[c].branch = call[c].branch
       /\ SendsWrite(c) => sent'[c][2].body.branch = call[c].branch]_vars
C7_Witness ==
  /\ WriteSent(Caller)
  /\ sent[Caller][2].body.branch = Str("dev")
  /\ env["GITHUB_BRANCH"] = Undefined

\* C8: with valid configuration exactly one probe is sent, the write is
\* sent only once the probe has settled, exactly one write is sent, and
\* nothing is sent after the write has settled.
C8_OneProbeThenOneWrite ==
  \A c \in Calls :
    /\ call[c].pc = "idle" => sent[c] = << >>
    /\ call[c].pc = "probe"
         => Methods(c) = << "GET" >> /\ call[c].check = NoResponse
    /\ call[c].pc = "write"
         => /\ Methods(c) = << "GET", "PUT" >>
            /\ call[c].check # NoResponse /\ call[c].res = NoResponse
    /\ (Done(c) /\ ValidConfig(c))
         => /\ Methods(c) = << "GET", "PUT" >>
            /\ call[c].check # NoResponse /\ call[c].res # NoResponse
            /\ call[c].promise.state # "pending"
C8_Witness ==
  /\ Done(Caller)
  /\ call[Caller].res = Http(500, TextBody(""))
  /\ Methods(Caller) = << "GET", "PUT" >>
  /\ call[Caller].promise.state = "rejected"

\* The write call c has in flight cannot be accepted: a file exists at its
\* address and the sha of the write is missing or not the current one.
Stale(c) ==
  /\ call[c].pc = "write"
  /\ remote[call[c].apiUrl] # Undefined
  /\ sent[c][2].body.sha # remote[call[c].apiUrl]

\* C9: calls to the same path are not coordinated; a call whose write is
\* stale when the remote handles it (another write landed after its probe)
\* is rejected as a conflict and fails with the remote-write error, and
\* the file keeps the revision of the write that landed.
C9_StaleWriteRejected ==
  [][\A c \in Calls :
       (Stale(c) /\ call'[c].pc = "done")
         => /\ call'[c].promise = RemoteWriteError(409, TextBody("Conflict"))
            /\ remote'[call[c].apiUrl] = remote[call[c].apiUrl]]_vars
\* Both calls probed the initial remote, the write of a landed, b failed.
C9_Witness ==
  \E a, b \in Calls :
    /\ a # b /\ call[a].apiUrl = call[b].apiUrl
    /\ Done(a) /\ Done(b)
    /\ call[a].check = RemoteRead(InitialRemote, sent[a][1])
    /\ call[b].check = RemoteRead(InitialRemote, sent[b][1])
    /\ call[a].promise.state = "fulfilled"
    /\ remote[call[a].apiUrl] # InitialRemote[call[a].apiUrl]
    /\ call[b].promise = RemoteWriteError(409, TextBody("Conflict"))

\* C10: a successful write response without content or without
\* content.download_url fails the call; the call is never fulfilled
\* without a URL.
C10_NoUrlFailsCall ==
  \A c \in Calls :
    /\ (Done(c) /\ ResponseOk(call[c].res) /\ call[c].res.body.kind = "obj"
          /\ (call[c].res.body.ckind = "absent"
                \/ (call[c].res.body.ckind = "obj"
                      /\ call[c].res.body.url = Undefined)))
         => call[c].promise.state = "rejected"
    /\ call[c].promise.state = "fulfilled"
         => call[c].promise.value # Undefined

====
